---- MODULE Spec2Model ----
(***************************************************************************)
(* Model of Python/PiUtils.py: BaseUtils.getRevision and the I2C wrapper   *)
(* class around smbus.SMBus.  Every method is an operator that computes    *)
(* the outcome of one invocation (returned value or escaping exception,    *)
(* transfer calls made on the bus handle, buses opened, lines printed);    *)
(* the actions apply the operators to arguments drawn from small sets and  *)
(* record the invocation in the state.                                     *)
(***************************************************************************)
EXTENDS Integers, Sequences, FiniteSets, TLC

VARIABLES
    cpuinfo,   \* /proc/cpuinfo: [readable, lines], lines are character sequences
    obj,       \* the I2C object the caller holds: [attrs, address, bus, verbose]
    op,        \* name of the last method invoked
    args,      \* its arguments and the bus driver's response to it
    ret,       \* what the invocation returned, or the exception that escaped
    calls,     \* transfer calls the invocation made on the SMBus handle
    opened,    \* bus numbers the invocation passed to smbus.SMBus(...)
    out        \* lines the invocation printed

vars == <<cpuinfo, obj, op, args, ret, calls, opened, out>>

-----------------------------------------------------------------------------
(* Bounds and program constants *)

\* the caller passes bus numbers 0..MaxBus
MaxBus == 1

ByteMax == 255
SignedByteMax == 127
ByteSpan == 256
SignedWordMax == 32767
WordSpan == 65536
SMBusMax == 32

-----------------------------------------------------------------------------
(* Python values *)

PyInt(i) == [kind |-> "int", val |-> i, list |-> <<>>, exc |-> ""]
PyNone == [kind |-> "None", val |-> 0, list |-> <<>>, exc |-> ""]
PyFalse == [kind |-> "bool", val |-> 0, list |-> <<>>, exc |-> ""]
PyTrue == [kind |-> "bool", val |-> 1, list |-> <<>>, exc |-> ""]
PyList(s) == [kind |-> "list", val |-> 0, list |-> s, exc |-> ""]
\* an exception that leaves the method
PyRaise(e) == [kind |-> "raise", val |-> 0, list |-> <<>>, exc |-> e]

\* truth value of "bus" in "bus if bus else ..."
Truthy(v) == v.kind \in {"int", "bool"} /\ v.val # 0

\* one transfer call on the bus handle
DCall(fn, addr, reg, val, len) ==
    [fn |-> fn, addr |-> addr, reg |-> reg, val |-> val, len |-> len]

\* outcome of one invocation
Outcome(r, c, o, b) == [ret |-> r, calls |-> c, out |-> o, opened |-> b]

InByte(x) == x >= 0 /\ x <= ByteMax

-----------------------------------------------------------------------------
(* BaseUtils.getRevision, I2C.getI2CBus *)

Revision == <<"R", "e", "v", "i", "s", "i", "o", "n">>
Whitespace == {" ", "\t", "\n"}

StartsWith(line, prefix) ==
    Len(line) >= Len(prefix) /\ SubSeq(line, 1, Len(prefix)) = prefix

RECURSIVE RStrip(_)
RStrip(line) ==
    IF line # <<>> /\ line[Len(line)] \in Whitespace
    THEN RStrip(SubSeq(line, 1, Len(line) - 1))
    ELSE line

\* the body of "for line in infile" returns in its first iteration, on either
\* branch; with no line at all the function falls off its end
GetRevision(cpu) ==
    IF ~cpu.readable THEN PyInt(0)
    ELSE IF cpu.lines = <<>> THEN PyNone
    ELSE LET line == cpu.lines[1] IN
         IF StartsWith(line, Revision)
         THEN LET s == RStrip(line) IN
              IF s[Len(s)] \in {"0", "2", "3"} THEN PyInt(1) ELSE PyInt(2)
         ELSE PyInt(0)

\* the possible results of "1 if getRevision() > 1 else 0"; None > 1 is False
\* under Python 2 and a TypeError under Python 3
GetI2CBus(cpu) ==
    LET rev == GetRevision(cpu) IN
    IF rev.kind = "None" THEN {PyInt(0), PyRaise("TypeError")}
    ELSE {IF rev.val > 1 THEN PyInt(1) ELSE PyInt(0)}

-----------------------------------------------------------------------------
(* class I2C *)

\* attributes __init__ sets on a fully constructed object
InitAttrs == {"address", "bus", "verbose"}

NoObject == [attrs |-> {}, address |-> 0, bus |-> 0, verbose |-> FALSE]

\* "bus if bus else I2C.getI2CBus()", dflt being the result of getI2CBus()
BusNumber(bus, dflt) == IF Truthy(bus) THEN bus ELSE dflt

\* probe with the upper end of the address check off by one
ProbeOffByOne(address, bus, dflt, openFails, io) ==
    LET sel == BusNumber(bus, dflt) IN
    IF sel.kind = "raise" THEN Outcome(sel, <<>>, <<>>, <<>>)
    ELSE IF openFails THEN Outcome(PyFalse, <<>>, <<>>, <<sel.val>>)
    ELSE IF address >= 0 /\ address <= ByteMax + 1
    THEN LET c == DCall("write_quick", address, 0, 0, 0) IN
         IF io THEN Outcome(PyFalse, <<c>>, <<>>, <<sel.val>>)
         ELSE Outcome(PyTrue, <<c>>, <<>>, <<sel.val>>)
    ELSE Outcome(PyFalse, <<>>, <<"I2CException">>, <<sel.val>>)

Probe(address, bus, dflt, openFails, io) ==
    LET sel == BusNumber(bus, dflt) IN
    IF sel.kind = "raise" THEN Outcome(sel, <<>>, <<>>, <<>>)
    ELSE IF openFails THEN Outcome(PyFalse, <<>>, <<>>, <<sel.val>>)
    ELSE IF address >= 0 /\ address <= ByteMax
    THEN LET c == DCall("write_quick", address, 0, 0, 0) IN
         IF io THEN Outcome(PyFalse, <<c>>, <<>>, <<sel.val>>)
         ELSE Outcome(PyTrue, <<c>>, <<>>, <<sel.val>>)
    ELSE Outcome(PyFalse, <<>>, <<"I2CException">>, <<sel.val>>)

\* printError without its "return False"
PrintErrorNoReturn(self) ==
    IF "address" \in self.attrs
    THEN Outcome(PyNone, <<>>, <<"DeviceError">>, <<>>)
    ELSE Outcome(PyRaise("AttributeError"), <<>>, <<>>, <<>>)

\* reads self.address: an AttributeError when __init__ has not set it
PrintError(self) ==
    IF "address" \in self.attrs
    THEN Outcome(PyFalse, <<>>, <<"DeviceError">>, <<>>)
    ELSE Outcome(PyRaise("AttributeError"), <<>>, <<>>, <<>>)

\* the constructor: the outcome and the object under construction
I2CInit(address, bus, verbose, dflt, openFails) ==
    IF address >= 0 /\ address <= ByteMax
    THEN LET sel == BusNumber(bus, dflt) IN
         IF sel.kind = "raise"
         THEN [o |-> Outcome(sel, <<>>, <<>>, <<>>), self |-> NoObject]
         ELSE IF openFails
         THEN [o |-> Outcome(PyRaise("IOError"), <<>>, <<>>, <<sel.val>>),
               self |-> NoObject]
         ELSE [o |-> Outcome(PyNone, <<>>, <<>>, <<sel.val>>),
               self |-> [attrs |-> InitAttrs, address |-> address,
                         bus |-> sel.val, verbose |-> verbose]]
    ELSE LET p == PrintError(NoObject) IN
         IF p.ret.kind = "raise"
         THEN [o |-> p, self |-> NoObject]
         ELSE [o |-> Outcome(PyNone, <<>>, p.out \o <<"I2CException">>, <<>>),
               self |-> NoObject]

\* "except IOError: return self.printError()" after the transfer call c
OnIOError(self, c) == [PrintError(self) EXCEPT !.calls = <<c>>]

\* "except I2CException as e: print(e); return False"
OnI2CException == Outcome(PyFalse, <<>>, <<"I2CException">>, <<>>)

\* "if self.verbose: print(...); return result": the return is inside the if
VerboseReturn(self, c, result, lines) ==
    IF self.verbose
    THEN Outcome(result, <<c>>, lines, <<>>)
    ELSE Outcome(PyNone, <<c>>, <<>>, <<>>)

SignedByte(result, signed) ==
    IF result > SignedByteMax /\ signed THEN result - ByteSpan ELSE result

\* ((result << 8) & 0xFF00) + (result >> 8)
SwapBytes(result) ==
    LET shl == result * ByteSpan
        masked == (shl % WordSpan) - (shl % ByteSpan)
    IN  masked + (result \div ByteSpan)

SignedWord(result, signed) ==
    IF result > SignedWordMax /\ signed THEN result - WordSpan ELSE result

\* the list a successful block read of n bytes delivers
Block(n) == [i \in 1..n |-> i % ByteSpan]

SimpleReadByte(self, signed, io, rval) ==
    LET c == DCall("read_byte", self.address, 0, 0, 0) IN
    IF io THEN OnIOError(self, c)
    ELSE VerboseReturn(self, c, PyInt(SignedByte(rval, signed)), <<"Verbose">>)

ReadByte(self, register, signed, io, rval) ==
    IF register >= 0 /\ register <= ByteMax
    THEN LET c == DCall("read_byte_data", self.address, register, 0, 0) IN
         IF io THEN OnIOError(self, c)
         ELSE VerboseReturn(self, c, PyInt(SignedByte(rval, signed)), <<"Verbose">>)
    ELSE OnI2CException

ReadWord(self, register, signed, bigEndian, io, rval) ==
    IF register >= 0 /\ register <= ByteMax
    THEN LET c == DCall("read_word_data", self.address, register, 0, 0)
             swapped == IF bigEndian THEN SwapBytes(rval) ELSE rval
         IN  IF io THEN OnIOError(self, c)
             ELSE VerboseReturn(self, c, PyInt(SignedWord(swapped, signed)),
                                <<"Verbose">>)
    ELSE OnI2CException

\* "if n>32: Warning(...)" builds an exception object and drops it
ReadListI2C(self, register, n, io) ==
    IF register >= 0 /\ register <= ByteMax
    THEN LET c == DCall("read_i2c_block_data", self.address, register, 0, n) IN
         IF io THEN OnIOError(self, c)
         ELSE VerboseReturn(self, c, PyList(Block(n)), <<"Verbose", "Results">>)
    ELSE OnI2CException

\* "if n>32: raise Exception(...)": no handler of the method catches it
ReadListSMBus(self, register, n, io) ==
    IF n > SMBusMax THEN Outcome(PyRaise("Exception"), <<>>, <<>>, <<>>)
    ELSE IF register >= 0 /\ register <= ByteMax
    THEN LET c == DCall("read_block_data", self.address, register, 0, n) IN
         IF io THEN OnIOError(self, c)
         ELSE VerboseReturn(self, c, PyList(Block(n)), <<"Verbose", "Results">>)
    ELSE OnI2CException

\* a write falls off the end of the method when it succeeds
WriteDone(self, c) ==
    Outcome(PyNone, <<c>>, IF self.verbose THEN <<"Verbose">> ELSE <<>>, <<>>)

SimpleWriteByte(self, value, io) ==
    IF value >= 0 /\ value <= ByteMax
    THEN LET c == DCall("write_byte", self.address, 0, value, 0) IN
         IF io THEN OnIOError(self, c) ELSE WriteDone(self, c)
    ELSE OnI2CException

\* writeByte with the value check left out
WriteByteNoValueCheck(self, register, value, io) ==
    IF register >= 0 /\ register <= ByteMax
    THEN LET c == DCall("write_byte_data", self.address, register, value, 0) IN
         IF io THEN OnIOError(self, c) ELSE WriteDone(self, c)
    ELSE OnI2CException

WriteByte(self, register, value, io) ==
    IF register >= 0 /\ register <= ByteMax
    THEN IF value >= 0 /\ value <= ByteMax
         THEN LET c == DCall("write_byte_data", self.address, register, value, 0) IN
              IF io THEN OnIOError(self, c) ELSE WriteDone(self, c)
         ELSE OnI2CException
    ELSE OnI2CException

WriteWord(self, register, value, io) ==
    IF register >= 0 /\ register <= ByteMax
    THEN IF value >= 0 /\ value <= ByteMax
         THEN LET c == DCall("write_word_data", self.address, register, value, 0) IN
              IF io THEN OnIOError(self, c) ELSE WriteDone(self, c)
         ELSE OnI2CException
    ELSE OnI2CException

\* self.errMsg(): the class defines no such method
ErrMsg(self, c, printed) ==
    Outcome(PyRaise("AttributeError"), <<c>>, printed, <<>>)

\* "if self.debug:" reads an attribute __init__ never sets
WriteListI2C(self, register, data, io) ==
    IF "debug" \notin self.attrs
    THEN Outcome(PyRaise("AttributeError"), <<>>, <<>>, <<>>)
    ELSE LET printed == IF self.debug THEN <<"Verbose", "Results">> ELSE <<>> IN
         IF register >= 0 /\ register <= ByteMax
         THEN LET c == DCall("write_i2c_block_data", self.address, register,
                             0, Len(data)) IN
              IF io THEN ErrMsg(self, c, printed)
              ELSE Outcome(PyNone, <<c>>, printed, <<>>)
         ELSE Outcome(PyFalse, <<>>, printed \o <<"I2CException">>, <<>>)

WriteListSMBus(self, register, data, io) ==
    IF "debug" \notin self.attrs
    THEN Outcome(PyRaise("AttributeError"), <<>>, <<>>, <<>>)
    ELSE LET printed == IF self.debug THEN <<"Verbose", "Results">> ELSE <<>> IN
         IF Len(data) > SMBusMax
         THEN Outcome(PyRaise("Exception"), <<>>, printed, <<>>)
         ELSE IF register >= 0 /\ register <= ByteMax
         THEN LET c == DCall("write_block_data", self.address, register,
                             0, Len(data)) IN
              IF io THEN ErrMsg(self, c, printed)
              ELSE Outcome(PyNone, <<c>>, printed, <<>>)
         ELSE Outcome(PyFalse, <<>>, printed \o <<"I2CException">>, <<>>)

-----------------------------------------------------------------------------
(* Arguments, driver responses and files the invocations are drawn from *)

\* integers on both sides of each end of 0..255
ByteArgs == {0 - 1, 0, ByteMax, ByteMax + 1}
\* values handed to writeWord: bytes, and words that are no bytes
WordArgs == ByteArgs \cup {WordSpan - 1, WordSpan}
\* block lengths on both sides of the SMBus limit
LenArgs == {1, SMBusMax, SMBusMax + 1}
\* False stands for "no bus argument given"
BusArgs == {PyFalse} \cup {PyInt(b) : b \in 0..MaxBus}
\* bytes and words the device delivers
ByteResp == {0, SignedByteMax, SignedByteMax + 1, ByteMax}
WordResp == {0, ByteMax, SignedWordMax, SignedWordMax + 1, 33023, WordSpan - 1}

\* what the driver does with a transfer: raise IOError, or deliver a value
Responses(values) ==
    {[io |-> TRUE, rval |-> 0]} \cup {[io |-> FALSE, rval |-> v] : v \in values}

Data(len) == [i \in 1..len |-> 0]

RevisionE == Revision \o <<":", "e", "\n">>
Revision2 == Revision \o <<":", "2", " ", "\n">>
Processor == <<"p", "r", "o", "c", "e", "s", "s", "o", "r", ":", "0", "\n">>

\* /proc/cpuinfo is generated by the kernel and never empty when readable
CpuFiles ==
    { [readable |-> FALSE, lines |-> <<>>],
      [readable |-> TRUE, lines |-> <<RevisionE>>],
      [readable |-> TRUE, lines |-> <<Revision2>>],
      [readable |-> TRUE, lines |-> <<Processor, RevisionE>>] }

NoArgs ==
    [address |-> 0, bus |-> PyFalse, verbose |-> FALSE, register |-> 0,
     value |-> 0, n |-> 0, data |-> <<>>, signed |-> FALSE, bigEndian |-> FALSE,
     openFails |-> FALSE, io |-> FALSE, rval |-> 0]

-----------------------------------------------------------------------------
(* The state machine *)

Init ==
    /\ cpuinfo \in CpuFiles
    /\ obj = NoObject
    /\ op = "none"
    /\ args = NoArgs
    /\ ret = PyNone
    /\ calls = <<>>
    /\ opened = <<>>
    /\ out = <<>>

\* record one invocation
Record(name, a, o) ==
    /\ op' = name
    /\ args' = a
    /\ ret' = o.ret
    /\ calls' = o.calls
    /\ opened' = o.opened
    /\ out' = o.out

CallGetRevision ==
    /\ Record("getRevision", NoArgs,
              Outcome(GetRevision(cpuinfo), <<>>, <<>>, <<>>))
    /\ UNCHANGED <<cpuinfo, obj>>

CallGetI2CBus ==
    \E d \in GetI2CBus(cpuinfo) :
        /\ Record("getI2CBus", NoArgs, Outcome(d, <<>>, <<>>, <<>>))
        /\ UNCHANGED <<cpuinfo, obj>>

CallProbe ==
    \E address \in ByteArgs, bus \in BusArgs, openFails, io \in BOOLEAN,
       d \in GetI2CBus(cpuinfo) :
        /\ Record("probe",
                  [NoArgs EXCEPT !.address = address, !.bus = bus,
                                 !.openFails = openFails, !.io = io],
                  Probe(address, bus, d, openFails, io))
        /\ UNCHANGED <<cpuinfo, obj>>

\* the caller's variable is bound only when __init__ returns
CallInit ==
    \E address \in ByteArgs, bus \in BusArgs, verbose, openFails \in BOOLEAN,
       d \in GetI2CBus(cpuinfo) :
        LET r == I2CInit(address, bus, verbose, d, openFails) IN
        /\ Record("I2C",
                  [NoArgs EXCEPT !.address = address, !.bus = bus,
                                 !.verbose = verbose, !.openFails = openFails],
                  r.o)
        /\ obj' = IF r.o.ret.kind = "raise" THEN obj ELSE r.self
        /\ UNCHANGED cpuinfo

CallSimpleReadByte ==
    /\ obj.attrs # {}
    /\ \E signed \in BOOLEAN, resp \in Responses(ByteResp) :
        Record("simpleReadByte",
               [NoArgs EXCEPT !.signed = signed, !.io = resp.io,
                              !.rval = resp.rval],
               SimpleReadByte(obj, signed, resp.io, resp.rval))
    /\ UNCHANGED <<cpuinfo, obj>>

CallReadByte ==
    /\ obj.attrs # {}
    /\ \E register \in ByteArgs, signed \in BOOLEAN,
          resp \in Responses(ByteResp) :
        Record("readByte",
               [NoArgs EXCEPT !.register = register, !.signed = signed,
                              !.io = resp.io, !.rval = resp.rval],
               ReadByte(obj, register, signed, resp.io, resp.rval))
    /\ UNCHANGED <<cpuinfo, obj>>

CallReadWord ==
    /\ obj.attrs # {}
    /\ \E register \in ByteArgs, signed, bigEndian \in BOOLEAN,
          resp \in Responses(WordResp) :
        Record("readWord",
               [NoArgs EXCEPT !.register = register, !.signed = signed,
                              !.bigEndian = bigEndian, !.io = resp.io,
                              !.rval = resp.rval],
               ReadWord(obj, register, signed, bigEndian, resp.io, resp.rval))
    /\ UNCHANGED <<cpuinfo, obj>>

CallReadListI2C ==
    /\ obj.attrs # {}
    /\ \E register \in ByteArgs, n \in LenArgs, io \in BOOLEAN :
        Record("readListI2C",
               [NoArgs EXCEPT !.register = register, !.n = n, !.io = io],
               ReadListI2C(obj, register, n, io))
    /\ UNCHANGED <<cpuinfo, obj>>

CallReadListSMBus ==
    /\ obj.attrs # {}
    /\ \E register \in ByteArgs, n \in LenArgs, io \in BOOLEAN :
        Record("readListSMBus",
               [NoArgs EXCEPT !.register = register, !.n = n, !.io = io],
               ReadListSMBus(obj, register, n, io))
    /\ UNCHANGED <<cpuinfo, obj>>

CallSimpleWriteByte ==
    /\ obj.attrs # {}
    /\ \E value \in ByteArgs, io \in BOOLEAN :
        Record("simpleWriteByte",
               [NoArgs EXCEPT !.value = value, !.io = io],
               SimpleWriteByte(obj, value, io))
    /\ UNCHANGED <<cpuinfo, obj>>

CallWriteByte ==
    /\ obj.attrs # {}
    /\ \E register \in ByteArgs, value \in ByteArgs, io \in BOOLEAN :
        Record("writeByte",
               [NoArgs EXCEPT !.register = register, !.value = value, !.io = io],
               WriteByte(obj, register, value, io))
    /\ UNCHANGED <<cpuinfo, obj>>

CallWriteWord ==
    /\ obj.attrs # {}
    /\ \E register \in ByteArgs, value \in WordArgs, io \in BOOLEAN :
        Record("writeWord",
               [NoArgs EXCEPT !.register = register, !.value = value, !.io = io],
               WriteWord(obj, register, value, io))
    /\ UNCHANGED <<cpuinfo, obj>>

CallWriteListI2C ==
    /\ obj.attrs # {}
    /\ \E register \in ByteArgs, len \in LenArgs, io \in BOOLEAN :
        Record("writeListI2C",
               [NoArgs EXCEPT !.register = register, !.data = Data(len),
                              !.io = io],
               WriteListI2C(obj, register, Data(len), io))
    /\ UNCHANGED <<cpuinfo, obj>>

CallWriteListSMBus ==
    /\ obj.attrs # {}
    /\ \E register \in ByteArgs, len \in LenArgs, io \in BOOLEAN :
        Record("writeListSMBus",
               [NoArgs EXCEPT !.register = register, !.data = Data(len),
                              !.io = io],
               WriteListSMBus(obj, register, Data(len), io))
    /\ UNCHANGED <<cpuinfo, obj>>

Next ==
    \/ CallGetRevision
    \/ CallGetI2CBus
    \/ CallProbe
    \/ CallInit
    \/ CallSimpleReadByte
    \/ CallReadByte
    \/ CallReadWord
    \/ CallReadListI2C
    \/ CallReadListSMBus
    \/ CallSimpleWriteByte
    \/ CallWriteByte
    \/ CallWriteWord
    \/ CallWriteListI2C
    \/ CallWriteListSMBus

Spec == Init /\ [][Next]_vars

-----------------------------------------------------------------------------
(* Properties *)

ReadOps ==
    {"simpleReadByte", "readByte", "readWord", "readListI2C", "readListSMBus"}
WriteOps ==
    {"simpleWriteByte", "writeByte", "writeWord", "writeListI2C", "writeListSMBus"}

\* the outcome of read operation o on object self with arguments a
ReadOutcome(o, self, a) ==
    CASE o = "simpleReadByte" -> SimpleReadByte(self, a.signed, a.io, a.rval)
      [] o = "readByte" -> ReadByte(self, a.register, a.signed, a.io, a.rval)
      [] o = "readWord" ->
            ReadWord(self, a.register, a.signed, a.bigEndian, a.io, a.rval)
      [] o = "readListI2C" -> ReadListI2C(self, a.register, a.n, a.io)
      [] o = "readListSMBus" -> ReadListSMBus(self, a.register, a.n, a.io)

\* C1: a read whose transfer succeeded returns the transferred value(s), and
\* the same call on the object with the verbose flag flipped returns the same.
C1_VerboseGatesOnlyPrint ==
    (op \in ReadOps /\ Len(calls) = 1 /\ ~args.io) =>
        /\ ret.kind \in {"int", "list"}
        /\ ReadOutcome(op, [obj EXCEPT !.verbose = ~@], args).ret = ret

C3_NoExceptionEscapes ==
    (op \in {"I2C"} \cup ReadOps \cup WriteOps) => ret.kind # "raise"

\* C4: no block read is handed a length above 32 and no block write a data
\* list longer than 32.
C4_BlockLimit ==
    \A i \in 1..Len(calls) :
        calls[i].fn \in {"read_i2c_block_data", "read_block_data",
                         "write_i2c_block_data", "write_block_data"} =>
            calls[i].len <= SMBusMax

\* C5: probe returns True exactly when the address is in 0..255 and neither
\* opening the bus nor write_quick raises IOError, returns False otherwise,
\* and never hands write_quick an address outside 0..255.
C5_ProbeResult ==
    op = "probe" =>
        /\ ret \in {PyTrue, PyFalse}
        /\ ret = PyTrue <=>
              (InByte(args.address) /\ ~args.openFails /\ ~args.io)
        /\ \A i \in 1..Len(calls) :
              calls[i].fn = "write_quick" /\ InByte(calls[i].addr)

\* probe of address 255 on a bus that opens and acknowledges
C5_Witness ==
    /\ op = "probe"
    /\ args.address = ByteMax
    /\ ret = PyTrue
    /\ Len(calls) = 1

\* C6: a read or write operation makes at most one transfer call; when that
\* call raises IOError the operation prints the device error message and
\* returns False; and the object is the same after the call as before it.
C6_NoRetryErrorLeavesObject ==
    [][op' \in ReadOps \cup WriteOps =>
          /\ Len(calls') <= 1
          /\ (Len(calls') = 1 /\ args'.io) =>
                (out' = <<"DeviceError">> /\ ret' = PyFalse)
          /\ obj' = obj]_vars

\* writeByte whose transfer raised IOError
C6_Witness ==
    /\ op = "writeByte"
    /\ Len(calls) = 1
    /\ args.io
    /\ ret = PyFalse
    /\ out = <<"DeviceError">>

\* the word with low and high byte exchanged
Exchanged(w) == (w % ByteSpan) * ByteSpan + (w \div ByteSpan)
\* two's-complement reading of a 16-bit word
TwosComplement(w) == IF w >= WordSpan \div 2 THEN w - WordSpan ELSE w

\* C7: for a word w delivered to readWord on an in-range register, the call
\* returns w, byte-swapped when bigEndian is set, then read as two's
\* complement when signed is set; swapping twice yields w.
C7_ReadWordConversion ==
    (op = "readWord" /\ InByte(args.register) /\ ~args.io) =>
        LET w == args.rval
            sw == IF args.bigEndian THEN Exchanged(w) ELSE w
            res == IF args.signed THEN TwosComplement(sw) ELSE sw
        IN  /\ ret = PyInt(res)
            /\ sw \in 0..(WordSpan - 1)
            /\ (res - sw) % WordSpan = 0
            /\ SwapBytes(SwapBytes(w)) = w

\* C8: writeWord on a register in 0..255 with a value in 0..65535 makes one
\* write_word_data call with the object's address, the register and the
\* value, and reports no failure when the transfer succeeds.
C8_WriteWordWritesWord ==
    (op = "writeWord" /\ InByte(args.register)
        /\ args.value \in 0..(WordSpan - 1)) =>
        /\ calls = <<DCall("write_word_data", obj.address, args.register,
                           args.value, 0)>>
        /\ ~args.io => ret # PyFalse

\* index of the first line that starts with 'Revision', 0 when there is none
FirstRevision(lines) ==
    LET hits == {i \in 1..Len(lines) : StartsWith(lines[i], Revision)} IN
    IF hits = {} THEN 0 ELSE CHOOSE i \in hits : \A j \in hits : i <= j

\* the revision as the claim describes it
RevisionOf(cpu) ==
    LET k == IF cpu.readable THEN FirstRevision(cpu.lines) ELSE 0 IN
    IF k = 0 THEN 0
    ELSE LET s == RStrip(cpu.lines[k]) IN
         IF s[Len(s)] \in {"0", "2", "3"} THEN 1 ELSE 2

\* C9: getRevision returns the revision of the first line starting with
\* 'Revision' wherever that line is, 0 when there is none or the file cannot
\* be read; getI2CBus returns 1 exactly when that revision exceeds 1, else 0.
C9_GetRevisionFindsLine ==
    /\ op = "getRevision" => ret = PyInt(RevisionOf(cpuinfo))
    /\ op = "getI2CBus" =>
          ret = PyInt(IF RevisionOf(cpuinfo) > 1 THEN 1 ELSE 0)

\* C10: the constructor and probe open the bus number the caller passes,
\* bus 0 included, and the default of getI2CBus only when none is passed.
C10_BusParameterSelectsBus ==
    (op \in {"I2C", "probe"} /\ opened # <<>>) =>
        IF args.bus.kind = "int"
        THEN opened = <<args.bus.val>>
        ELSE \E d \in GetI2CBus(cpuinfo) : opened = <<d.val>>

====
